---- MODULE Spec2Model ----
(***************************************************************************)
(* Token construction and signing engine of the jwt package (sign.go):     *)
(* FormatWithoutSign, HMACSign, RSASign, ECDSASign, EdDSASign and the      *)
(* shared newToken.  Byte slices are sequences of integers 0..255, text is *)
(* its ASCII codes, a token buffer is its backing array plus a length, and *)
(* every call is a process that walks through the statements of its        *)
(* function.  The cryptographic primitives are opaque deterministic        *)
(* functions of their inputs (or, where randomised, inputs of the call).   *)
(***************************************************************************)
EXTENDS Integers, Sequences, FiniteSets, TLC

\* ------------------------------------------------------------------ text

\* The printable ASCII characters, codes 32..126, in code order (code 96, the
\* grave accent, cannot be written in a string and is spelled out).
Printable ==
    <<" ","!","\"","#","$","%","&","'","(",")","*","+",",","-",".","/","0","1","2","3","4","5","6","7","8","9",":",";","<","=",">","?",
      "@","A","B","C","D","E","F","G","H","I","J","K","L","M","N","O","P","Q","R","S","T","U","V","W","X","Y","Z","[","\\","]","^","_",
      "grave","a","b","c","d","e","f","g","h","i","j","k","l","m","n","o","p","q","r","s","t","u","v","w","x","y","z","{","|","}","~">>

\* The byte of a one-character string.
Ord(ch) == 31 + CHOOSE i \in 1..Len(Printable) : Printable[i] = ch

\* The bytes of a string given as its characters.
Str(chars) == [i \in 1..Len(chars) |-> Ord(chars[i])]

Zeros(n) == [i \in 1..n |-> 0]

\* s[from..to] (1-based, inclusive), empty when to < from.
Slice(s, from, to) == [i \in 1..(to - from + 1) |-> s[from + i - 1]]

\* dst with src copied in from 0-based offset off on.
WriteAt(dst, off, src) ==
    [i \in 1..Len(dst) |->
        IF i > off /\ i <= off + Len(src) THEN src[i - off] ELSE dst[i]]

RECURSIVE SumBytes(_)
SumBytes(s) == IF s = <<>> THEN 0 ELSE (Head(s) + SumBytes(Tail(s))) % 256

Max(a, b) == IF a >= b THEN a ELSE b
Min(a, b) == IF a <= b THEN a ELSE b

\* -------------------------------------------------- algorithm identifiers

EdDSA == <<"E","d","D","S","A">>
ES256 == <<"E","S","2","5","6">>
ES384 == <<"E","S","3","8","4">>
ES512 == <<"E","S","5","1","2">>
HS256 == <<"H","S","2","5","6">>
HS384 == <<"H","S","3","8","4">>
HS512 == <<"H","S","5","1","2">>
PS256 == <<"P","S","2","5","6">>
PS384 == <<"P","S","3","8","4">>
PS512 == <<"P","S","5","1","2">>
RS256 == <<"R","S","2","5","6">>
RS384 == <<"R","S","3","8","4">>
RS512 == <<"R","S","5","1","2">>

\* An identifier outside every family, and the empty identifier.
none == <<"n","o","n","e">>
NoAlg == <<>>

\* The enumerated sets of the families (AlgorithmCatalog).
HMACAlgs == {HS256, HS384, HS512}
RSAAlgs == {RS256, RS384, RS512, PS256, PS384, PS512}
ECDSAAlgs == {ES256, ES384, ES512}

\* Digest size in bytes of the hash registered for an identifier
\* (SHA-256, SHA-384, SHA-512 by the identifier's number).
HashSize(alg) ==
    CASE alg \in {HS256, RS256, PS256, ES256} -> 32
      [] alg \in {HS384, RS384, PS384, ES384} -> 48
      [] alg \in {HS512, RS512, PS512, ES512} -> 64

\* Errors a call can return; NoErr is Go's nil error.
NoErr == "nil"
errNoSecret == "errNoSecret"
AlgError == "AlgError"
SyncError == "syncError"
SignError == "signError"

\* hashLookup(alg, algs): the hash for alg, or AlgError when alg is not in algs.
hashLookup(alg, algs) ==
    IF alg \in algs
    THEN [hash |-> HashSize(alg), err |-> NoErr]
    ELSE [hash |-> 0, err |-> AlgError]

\* ------------------------------------------------- base64url, unpadded

encodeURL ==
    Str(<<"A","B","C","D","E","F","G","H","I","J","K","L","M","N","O","P","Q","R","S","T","U","V","W","X","Y","Z","a","b","c","d","e","f",
          "g","h","i","j","k","l","m","n","o","p","q","r","s","t","u","v","w","x","y","z","0","1","2","3","4","5","6","7","8","9","-","_">>)

\* encoding.EncodedLen for an encoding without padding.
EncodedLen(n) == (n \div 3) * 4 + ((n % 3) * 8 + 5) \div 6

\* One full quantum: 3 source bytes, read first, give 4 characters.
EncodeQuantum(b0, b1, b2) ==
    LET val == b0 * 65536 + b1 * 256 + b2
    IN  << encodeURL[((val \div 262144) % 64) + 1],
           encodeURL[((val \div 4096) % 64) + 1],
           encodeURL[((val \div 64) % 64) + 1],
           encodeURL[(val % 64) + 1] >>

\* The last, partial quantum: 1 or 2 source bytes give 2 or 3 characters.
EncodeRemain(rest) ==
    LET val == rest[1] * 65536 + (IF Len(rest) = 2 THEN rest[2] * 256 ELSE 0)
    IN  IF Len(rest) = 2
        THEN << encodeURL[((val \div 262144) % 64) + 1],
                encodeURL[((val \div 4096) % 64) + 1],
                encodeURL[((val \div 64) % 64) + 1] >>
        ELSE << encodeURL[((val \div 262144) % 64) + 1],
                encodeURL[((val \div 4096) % 64) + 1] >>

\* The encoding of src, source and destination in separate memory.
RECURSIVE EncodeToSeq(_)
EncodeToSeq(src) ==
    IF Len(src) = 0 THEN <<>>
    ELSE IF Len(src) < 3 THEN EncodeRemain(src)
    ELSE EncodeQuantum(src[1], src[2], src[3])
             \o EncodeToSeq(Slice(src, 4, Len(src)))

\* encoding.Encode(dst[off:], src) with src outside dst.
Encode(dst, off, src) == WriteAt(dst, off, EncodeToSeq(src))

\* ------------------------------------------------------ header and token

Dot == Ord(".")
Quote == Ord("\"")
Backslash == Ord("\\")

\* The nil byte slice, and a non-nil one.
NilSlice == [nil |-> TRUE, bytes |-> <<>>]
SliceOf(b) == [nil |-> FALSE, bytes |-> b]

\* strconv.AppendQuote on printable ASCII: quote and backslash are escaped.
RECURSIVE QuoteBody(_)
QuoteBody(s) ==
    IF Len(s) = 0 THEN <<>>
    ELSE (IF s[1] \in {Quote, Backslash} THEN <<Backslash, s[1]>> ELSE <<s[1]>>)
             \o QuoteBody(Slice(s, 2, Len(s)))

AppendQuote(dst, s) == dst \o <<Quote>> \o QuoteBody(s) \o <<Quote>>

\* The precomputed header segments, each with its trailing '.'.
FixedHeader(alg) ==
    CASE alg = EdDSA -> Str(<<"e","y","J","h","b","G","c","i","O","i","J","F","Z","E","R","T","Q","S","J","9",".">>)
      [] alg = ES256 -> Str(<<"e","y","J","h","b","G","c","i","O","i","J","F","U","z","I","1","N","i","J","9",".">>)
      [] alg = ES384 -> Str(<<"e","y","J","h","b","G","c","i","O","i","J","F","U","z","M","4","N","C","J","9",".">>)
      [] alg = ES512 -> Str(<<"e","y","J","h","b","G","c","i","O","i","J","F","U","z","U","x","M","i","J","9",".">>)
      [] alg = HS256 -> Str(<<"e","y","J","h","b","G","c","i","O","i","J","I","U","z","I","1","N","i","J","9",".">>)
      [] alg = HS384 -> Str(<<"e","y","J","h","b","G","c","i","O","i","J","I","U","z","M","4","N","C","J","9",".">>)
      [] alg = HS512 -> Str(<<"e","y","J","h","b","G","c","i","O","i","J","I","U","z","U","x","M","i","J","9",".">>)
      [] alg = PS256 -> Str(<<"e","y","J","h","b","G","c","i","O","i","J","Q","U","z","I","1","N","i","J","9",".">>)
      [] alg = PS384 -> Str(<<"e","y","J","h","b","G","c","i","O","i","J","Q","U","z","M","4","N","C","J","9",".">>)
      [] alg = PS512 -> Str(<<"e","y","J","h","b","G","c","i","O","i","J","Q","U","z","U","x","M","i","J","9",".">>)
      [] alg = RS256 -> Str(<<"e","y","J","h","b","G","c","i","O","i","J","S","U","z","I","1","N","i","J","9",".">>)
      [] alg = RS384 -> Str(<<"e","y","J","h","b","G","c","i","O","i","J","S","U","z","M","4","N","C","J","9",".">>)
      [] alg = RS512 -> Str(<<"e","y","J","h","b","G","c","i","O","i","J","S","U","z","U","x","M","i","J","9",".">>)
      [] OTHER -> <<>>

\* TokenCap without the byte for the second '.'.
TokenCapNoDelimiter(l, encSigLen) == l + encSigLen

\* Capacity of the token buffer: the unsigned prefix, '.', the signature.
TokenCap(l, encSigLen) == l + 1 + encSigLen

\* The header JSON newToken builds when sync gave none.
BuildHeaderJSON(c, alg) ==
    LET start == IF c.KeyID = <<>>
                 THEN Str(<<"{","\"","a","l","g","\"",":">>)
                 ELSE AppendQuote(Str(<<"{","\"","k","i","d","\"",":">>), c.KeyID)
                          \o Str(<<",","\"","a","l","g","\"",":">>)
    IN  AppendQuote(start, Str(alg)) \o Str(<<"}">>)

\* newToken's general path: [buf |-> backing array, len |-> logical length].
newTokenSlow(c, alg, encSigLen, headerJSON) ==
    LET json == IF headerJSON.nil THEN BuildHeaderJSON(c, alg)
                ELSE headerJSON.bytes
        headerLen == EncodedLen(Len(json))
        l == headerLen + 1 + EncodedLen(Len(c.Raw))
        token == Zeros(TokenCap(l, encSigLen))
        t1 == Encode(token, 0, json)
        t2 == WriteAt(t1, headerLen, <<Dot>>)
    IN  [buf |-> Encode(t2, headerLen + 1, c.Raw), len |-> l]

\* newToken with the '.' after the header never written.
newTokenNoSeparator(c, alg, encSigLen, headerJSON) ==
    LET t == newTokenSlow(c, alg, encSigLen, headerJSON)
        headerLen == t.len - 1 - EncodedLen(Len(c.Raw))
    IN  [buf |-> WriteAt(t.buf, headerLen, <<0>>), len |-> t.len]

\* newToken with one character of the fixed ES512 header mistyped.
newTokenFixedTypo(c, alg, encSigLen, headerJSON) ==
    LET right == IF headerJSON.nil /\ c.KeyID = <<>>
                 THEN FixedHeader(alg) ELSE <<>>
        fixed == IF alg = ES512 THEN [right EXCEPT ![15] = Ord("Y")] ELSE right
        l == Len(fixed) + EncodedLen(Len(c.Raw))
        token == Zeros(TokenCap(l, encSigLen))
    IN  IF fixed # <<>>
        THEN [buf |-> Encode(WriteAt(token, 0, fixed), Len(fixed), c.Raw),
              len |-> l]
        ELSE newTokenSlow(c, alg, encSigLen, headerJSON)

\* newToken: the fixed headers first, the general path otherwise.
newToken(c, alg, encSigLen, headerJSON) ==
    LET fixed == IF headerJSON.nil /\ c.KeyID = <<>>
                 THEN FixedHeader(alg) ELSE <<>>
        l == Len(fixed) + EncodedLen(Len(c.Raw))
        token == Zeros(TokenCap(l, encSigLen))
    IN  IF fixed # <<>>
        THEN [buf |-> Encode(WriteAt(token, 0, fixed), Len(fixed), c.Raw),
              len |-> l]
        ELSE newTokenSlow(c, alg, encSigLen, headerJSON)

\* ------------------------------------------------------ model bounds

\* Key ids are the prefixes of KeyIDText up to this length.
MaxKeyIDLen == 2
\* Issuers are the prefixes of IssuerText up to this length.
MaxIssuerLen == 2
\* Keys, secrets and random draws are numbered 1..NumSeeds.
NumSeeds == 2

Calls == {1, 2}
ClaimsIds == {1, 2}

\* ------------------------------------------- collaborators of the engine

KeyIDText == Str(<<"k","\"","1","\\","7">>)
IssuerText == Str(<<"a","b","c","d","e">>)

\* n opaque bytes drawn from a seed: what a primitive returns.
Pattern(n, seed) == [i \in 1..n |-> (seed * 31 + i * 7 + (i \div 5) * seed) % 256]

\* The payload JSON the claims serialise to.
Marshal(c) ==
    IF c.Issuer = <<>> THEN Str(<<"{","}">>)
    ELSE AppendQuote(Str(<<"{","\"","i","s","s","\"",":">>), c.Issuer)
             \o Str(<<"}">>)

\* A header the claims carry to replace the built one.
HeaderOverride == Str(<<"{","\"","t","y","p","\"",":","\"","J","W","T","\"","}">>)

\* hmac.New(hash.New, secret) over msg, Sum: size bytes.
HMACSum(size, secret, msg) ==
    Pattern(size, (SumBytes(secret) + 3 * SumBytes(msg) + size) % 256)

\* hash.New() over msg, Sum: size bytes.
HashSum(size, msg) == Pattern(size, (5 * SumBytes(msg) + size + 1) % 256)

\* rsa.SignPKCS1v15 / rsa.SignPSS: key.Size() bytes; PSS also draws a salt.
RSASignature(key, pss, salt, hashed) ==
    Pattern(key.size,
            (key.seed * 11 + SumBytes(hashed) + (IF pss THEN 1 + salt ELSE 0)) % 256)

\* ed25519.SignatureSize and ed25519.Sign(key, msg).
SignatureSize == 64
Ed25519Sign(key, msg) == Pattern(SignatureSize, (key * 13 + SumBytes(msg)) % 256)

\* A positive big integer of n natural bytes, most significant first and
\* not zero, as ecdsa.Sign returns r and s.
BigInt(n, seed) ==
    [i \in 1..n |-> IF i = 1 THEN ((seed * 97) % 255) + 1
                    ELSE (seed * 53 + i * 11) % 256]

\* big.Int.Bits: the words of x least significant first, each word its
\* intSize/8 bytes least significant first; the top word is not zero.
Bits(x, intSize) ==
    LET wb == intSize \div 8
        nwords == (Len(x) + wb - 1) \div wb
    IN  [k \in 1..nwords |->
            [j \in 1..wb |->
                LET pos == Len(x) - ((k - 1) * wb + (j - 1))
                IN  IF pos >= 1 THEN x[pos] ELSE 0]]

\* (key.Curve.Params().BitSize + 7) / 8 for P-256, P-384 and P-521.
CurveBitSizes == {256, 384, 521}
ParamLen(bitSize) == (bitSize + 7) \div 8

\* ------------------------------------------------------ ECDSA packing

\* The inner loop: the bytes of one word, lowest first, stored downwards
\* from i.  ok is FALSE when an index leaves sig (the run-time panic).
RECURSIVE PackWord(_, _, _, _)
PackWord(sig, i, word, bitCount) ==
    IF bitCount <= 0 THEN [sig |-> sig, i |-> i, ok |-> TRUE]
    ELSE IF i - 1 < 0 \/ i - 1 >= Len(sig) THEN [sig |-> sig, i |-> i - 1, ok |-> FALSE]
    ELSE PackWord([sig EXCEPT ![i] = word[1]], i - 1,
                  Tail(word) \o <<0>>, bitCount - 8)

\* The outer loop over the words of a big integer.
RECURSIVE PackBits(_, _, _, _)
PackBits(sig, i, bits, intSize) ==
    IF Len(bits) = 0 THEN [sig |-> sig, i |-> i, ok |-> TRUE]
    ELSE LET w == PackWord(sig, i, bits[1], intSize)
         IN  IF ~w.ok THEN w
             ELSE PackBits(w.sig, w.i, Slice(bits, 2, Len(bits)), intSize)

\* RStart without the reset: r follows wherever the loop over s ended.
RStartNoReset(sigLen, paramLen, iAfterS) == iAfterS

\* Where the packing of r starts: i is reset after the loop over s.
RStart(sigLen, paramLen, iAfterS) == sigLen - paramLen

\* ------------------------------------------------------------- state

VARIABLES
    claims,      \* the Claims values: KeyID, Issuer, Header, Valid, Raw
    call,        \* per call: the operation and its arguments
    pc,          \* per call: the statement it is at
    headerJSON,  \* per call: what sync returned
    hash,        \* per call: digest size of the hash hashLookup returned
    buf,         \* per call: backing array of token
    tlen,        \* per call: len(token); cap(token) is Len(buf)
    digest,      \* per call: the bytes written to the hash, MAC or signer
    sig,         \* per call: a signature held outside the token buffer
    ix,          \* per call: ECDSASign's i after the loop over s
    enc,         \* per call: the running encoding.Encode of the signature
    ret,         \* per call: the returned token and error
    base,        \* per call: len(token) as newToken returned it
    lo,          \* per call: lowest offset written after newToken
    hi,          \* per call: highest offset written after newToken
    allocs,      \* per call: buffers allocated for the token
    acc,         \* the accesses made to the Claims values
    raw          \* per call: the raw signature as staged before encoding

vars == << claims, call, pc, headerJSON, hash, buf, tlen, digest, sig, ix, enc,
           ret, base, lo, hi, allocs, acc, raw >>

FormatOp == "FormatWithoutSign"
HMACOp == "HMACSign"
RSAOp == "RSASign"
ECDSAOp == "ECDSASign"
EdDSAOp == "EdDSASign"

NoReturn == [token |-> NilSlice, cap |-> 0, err |-> "none"]
Failed(err) == [token |-> NilSlice, cap |-> 0, err |-> err]
NoEnc == [dst |-> 0, dlen |-> 0, aliased |-> FALSE, src |-> 0, n |-> 0, si |-> 0, di |-> 0]

\* Family with one set of all hash-based identifiers for every operation.
FamilyShared(op) == HMACAlgs \cup RSAAlgs \cup ECDSAAlgs

\* The family set each operation hands to hashLookup.
Family(op) ==
    CASE op = HMACOp -> HMACAlgs
      [] op = RSAOp -> RSAAlgs
      [] op = ECDSAOp -> ECDSAAlgs

\* The algorithm a call signs with: EdDSASign takes none and uses EdDSA.
Alg(p) == IF call[p].op = EdDSAOp THEN EdDSA ELSE call[p].alg

\* The raw signature size each operation reserves room for.
RawSigLen(p) ==
    CASE call[p].op = HMACOp -> hash[p]
      [] call[p].op = RSAOp -> call[p].key.size
      [] call[p].op = ECDSAOp -> 2 * ParamLen(call[p].bitSize)
      [] call[p].op = EdDSAOp -> SignatureSize

EncSigLen(p) == IF call[p].op = FormatOp THEN 0 ELSE EncodedLen(RawSigLen(p))

\* RawLoc with one payload buffer shared by every Claims value.
RawLocShared(id) == <<1, "Raw">>

\* Where c.Raw of a Claims value lives.
RawLoc(id) == <<id, "Raw">>

\* DigestInput taken one byte too long, the delimiter's place included.
DigestInputWithDelimiter(b, n) == Slice(b, 1, n + 1)

\* The bytes handed to the hash, MAC or signature primitive.
DigestInput(b, n) == Slice(b, 1, n)

\* bufOffset at the head of the reserved region instead of its tail.
bufOffsetFront(tcap, len, size) == len

\* Where HMACSign stages the raw MAC.
bufOffset(tcap, len, size) == tcap - size

\* The offsets written after newToken, widened by from..to.
Touch(p, from, to) ==
    /\ lo' = [lo EXCEPT ![p] = Min(@, from)]
    /\ hi' = [hi EXCEPT ![p] = Max(@, to)]

\* A run-time panic: the call ends without a result.
Panic(p) ==
    /\ pc' = [pc EXCEPT ![p] = "panic"]
    /\ ret' = [ret EXCEPT ![p] = Failed("panic")]

\* ------------------------------------------------------------- inputs

KeyIDs == {Slice(KeyIDText, 1, n) : n \in 0..MaxKeyIDLen}
Issuers == {Slice(IssuerText, 1, n) : n \in 0..MaxIssuerLen}
Seeds == 1..NumSeeds
Secret(k) == <<k, 2 * k, 255 - k>>
IntSizes == {32, 64}
RSAKeySizes == {128, 192}

PlainClaims ==
    [KeyID |-> <<>>, Issuer |-> <<>>, Header |-> NilSlice, Valid |-> TRUE,
     Raw |-> <<>>]

ClaimsValues ==
    [KeyID : KeyIDs, Issuer : Issuers, Header : {NilSlice, SliceOf(HeaderOverride)},
     Valid : BOOLEAN, Raw : {<<>>}]

IdleCall ==
    [op |-> "idle", alg |-> NoAlg, cl |-> 2, secret |-> <<>>,
     key |-> [size |-> 128, seed |-> 1], bitSize |-> 256, r |-> <<1>>, s |-> <<1>>,
     intSize |-> 64, salt |-> 1, signOK |-> TRUE]

AllAlgs == HMACAlgs \cup RSAAlgs \cup ECDSAAlgs \cup {EdDSA}

\* The natural byte lengths of r and s tried for a curve: one byte, one
\* word short, one byte short, full.
RSLens(paramLen, intSize) == {1, paramLen - intSize \div 8, paramLen - 1, paramLen}
RSValues(paramLen, intSize) ==
    {BigInt(n, k) : n \in RSLens(paramLen, intSize), k \in Seeds}

ESOfCurve(bitSize) ==
    CASE bitSize = 256 -> ES256 [] bitSize = 384 -> ES384 [] bitSize = 521 -> ES512

\* Calls that vary the algorithm, with one key each.
HeaderCalls ==
    {[IdleCall EXCEPT !.op = FormatOp, !.alg = a, !.cl = 1] :
        a \in AllAlgs \cup {none, NoAlg}}
    \cup {[IdleCall EXCEPT !.op = HMACOp, !.alg = a, !.cl = 1, !.secret = s] :
        a \in HMACAlgs \cup {RS256, none, NoAlg}, s \in {<<>>, Secret(1)}}
    \cup {[IdleCall EXCEPT !.op = RSAOp, !.alg = a, !.cl = 1] :
        a \in {RS256, PS384, HS256, ES256, NoAlg}}
    \cup {[IdleCall EXCEPT !.op = ECDSAOp, !.alg = a, !.cl = 1,
                           !.r = BigInt(32, 1), !.s = BigInt(31, 2)] :
        a \in {ES256, ES512, HS256, EdDSA}}
    \cup {[IdleCall EXCEPT !.op = EdDSAOp, !.alg = EdDSA, !.cl = 1]}

\* Calls that vary keys, secrets, word size and signature values.
SignCalls ==
    {[IdleCall EXCEPT !.op = HMACOp, !.alg = a, !.cl = 1, !.secret = Secret(k)] :
        a \in HMACAlgs, k \in Seeds}
    \cup {[IdleCall EXCEPT !.op = RSAOp, !.alg = a, !.cl = 1,
                           !.key = [size |-> n, seed |-> k], !.salt = k,
                           !.signOK = ok] :
        a \in RSAAlgs, n \in RSAKeySizes, k \in Seeds, ok \in BOOLEAN}
    \cup UNION {UNION {
           {[IdleCall EXCEPT !.op = ECDSAOp, !.alg = ESOfCurve(b), !.cl = 1,
                             !.bitSize = b, !.intSize = w, !.r = r, !.s = s,
                             !.signOK = ok] :
               r \in RSValues(ParamLen(b), w), s \in RSValues(ParamLen(b), w),
               ok \in BOOLEAN}
           : w \in IntSizes} : b \in CurveBitSizes}
    \cup {[IdleCall EXCEPT !.op = EdDSAOp, !.alg = EdDSA, !.cl = 1, !.key.seed = k] :
        k \in Seeds}

\* Calls that run side by side.
ConcCalls ==
    {[IdleCall EXCEPT !.op = FormatOp, !.alg = none],
     [IdleCall EXCEPT !.op = HMACOp, !.alg = HS256, !.secret = Secret(1)],
     [IdleCall EXCEPT !.op = HMACOp, !.alg = HS256],
     [IdleCall EXCEPT !.op = RSAOp, !.alg = PS256],
     [IdleCall EXCEPT !.op = RSAOp, !.alg = HS256],
     [IdleCall EXCEPT !.op = ECDSAOp, !.alg = ES256,
                      !.r = BigInt(32, 1), !.s = BigInt(31, 2)],
     [IdleCall EXCEPT !.op = ECDSAOp, !.alg = ES256, !.signOK = FALSE],
     [IdleCall EXCEPT !.op = EdDSAOp, !.alg = EdDSA]}

ConcSecond ==
    {[IdleCall EXCEPT !.op = FormatOp, !.alg = HS256],
     [IdleCall EXCEPT !.op = HMACOp, !.alg = HS384, !.secret = Secret(2)],
     [IdleCall EXCEPT !.op = EdDSAOp, !.alg = EdDSA, !.key.seed = 2]}

Entry(c) == IF c.op = "idle" THEN "idle" ELSE IF c.op = HMACOp THEN "start" ELSE "sync"

InitRest ==
    /\ pc = [p \in Calls |-> Entry(call[p])]
    /\ headerJSON = [p \in Calls |-> NilSlice]
    /\ hash = [p \in Calls |-> 0]
    /\ buf = [p \in Calls |-> <<>>]
    /\ tlen = [p \in Calls |-> 0]
    /\ digest = [p \in Calls |-> <<>>]
    /\ sig = [p \in Calls |-> <<>>]
    /\ ix = [p \in Calls |-> 0]
    /\ enc = [p \in Calls |-> NoEnc]
    /\ ret = [p \in Calls |-> NoReturn]
    /\ base = [p \in Calls |-> 0]
    /\ lo = [p \in Calls |-> 100000]
    /\ hi = [p \in Calls |-> -1]
    /\ allocs = [p \in Calls |-> 0]
    /\ acc = {}
    /\ raw = [p \in Calls |-> <<>>]

\* One call, on any Claims value with one key per operation, or on plain
\* claims with every key, secret and signature value.
Init ==
    /\ \/ /\ claims \in [ClaimsIds -> ClaimsValues]
          /\ claims[2] = PlainClaims
          /\ \E c \in HeaderCalls : call = [p \in Calls |-> IF p = 1 THEN c ELSE IdleCall]
       \/ /\ claims = [id \in ClaimsIds |-> PlainClaims]
          /\ \E c \in SignCalls : call = [p \in Calls |-> IF p = 1 THEN c ELSE IdleCall]
    /\ InitRest

\* Two calls, on the same Claims value or on two.
InitConc ==
    /\ claims = [id \in ClaimsIds |-> PlainClaims]
    /\ \E c1 \in ConcCalls, c2 \in ConcSecond, id \in ClaimsIds :
          call = [p \in Calls |-> IF p = 1 THEN [c1 EXCEPT !.cl = 1]
                                  ELSE [c2 EXCEPT !.cl = id]]
    /\ InitRest

\* ------------------------------------------------------------ actions

\* HMACSecretCheck without the check.
HMACSecretCheckMissing(p) ==
    /\ pc[p] = "start"
    /\ pc' = [pc EXCEPT ![p] = "sync"]
    /\ UNCHANGED << claims, call, headerJSON, hash, buf, tlen, digest, sig, ix,
                    enc, ret, base, lo, hi, allocs, acc, raw >>

\* HMACSign, its first statement: an empty secret ends the call.
HMACSecretCheck(p) ==
    /\ pc[p] = "start"
    /\ IF Len(call[p].secret) = 0
       THEN /\ pc' = [pc EXCEPT ![p] = "done"]
            /\ ret' = [ret EXCEPT ![p] = Failed(errNoSecret)]
       ELSE /\ pc' = [pc EXCEPT ![p] = "sync"]
            /\ ret' = ret
    /\ UNCHANGED << claims, call, headerJSON, hash, buf, tlen, digest, sig, ix,
                    enc, base, lo, hi, allocs, acc, raw >>

\* c.sync(alg): serialises the claims into c.Raw and returns the header
\* override, or fails.
Sync(p) ==
    /\ pc[p] = "sync"
    /\ LET id == call[p].cl
           c == claims[id]
       IN  IF c.Valid
           THEN /\ claims' = [claims EXCEPT ![id].Raw = Marshal(c)]
                /\ headerJSON' = [headerJSON EXCEPT ![p] = c.Header]
                /\ acc' = acc \cup {[call |-> p, loc |-> <<id, "Issuer">>, kind |-> "r"],
                                    [call |-> p, loc |-> <<id, "Header">>, kind |-> "r"],
                                    [call |-> p, loc |-> <<id, "Raw">>, kind |-> "w"]}
                /\ pc' = [pc EXCEPT ![p] =
                            IF call[p].op \in {FormatOp, EdDSAOp} THEN "newToken"
                            ELSE "lookup"]
                /\ ret' = ret
           ELSE /\ acc' = acc \cup {[call |-> p, loc |-> <<id, "Issuer">>, kind |-> "r"]}
                /\ pc' = [pc EXCEPT ![p] = "done"]
                /\ ret' = [ret EXCEPT ![p] = Failed(SyncError)]
                /\ UNCHANGED << claims, headerJSON >>
    /\ UNCHANGED << call, hash, buf, tlen, digest, sig, ix, enc, base, lo, hi,
                    allocs, raw >>

\* hashLookup(alg, <family>) and its error return.
HashLookup(p) ==
    /\ pc[p] = "lookup"
    /\ LET h == hashLookup(call[p].alg, Family(call[p].op))
       IN  IF h.err # NoErr
           THEN /\ pc' = [pc EXCEPT ![p] = "done"]
                /\ ret' = [ret EXCEPT ![p] = Failed(h.err)]
                /\ hash' = hash
           ELSE /\ pc' = [pc EXCEPT ![p] = "newToken"]
                /\ hash' = [hash EXCEPT ![p] = h.hash]
                /\ ret' = ret
    /\ UNCHANGED << claims, call, headerJSON, buf, tlen, digest, sig, ix, enc,
                    base, lo, hi, allocs, acc, raw >>

\* token = c.newToken(alg, encSigLen, headerJSON): the one allocation.
NewToken(p) ==
    /\ pc[p] = "newToken"
    /\ LET id == call[p].cl
           c == [KeyID |-> claims[id].KeyID, Raw |-> claims[RawLoc(id)[1]].Raw]
           t == newToken(c, Alg(p), EncSigLen(p), headerJSON[p])
       IN  /\ buf' = [buf EXCEPT ![p] = t.buf]
           /\ tlen' = [tlen EXCEPT ![p] = t.len]
           /\ base' = [base EXCEPT ![p] = t.len]
           /\ acc' = acc \cup {[call |-> p, loc |-> <<id, "KeyID">>, kind |-> "r"],
                               [call |-> p, loc |-> RawLoc(id), kind |-> "r"]}
    /\ allocs' = [allocs EXCEPT ![p] = @ + 1]
    /\ pc' = [pc EXCEPT ![p] =
                CASE call[p].op = FormatOp -> "return"
                  [] call[p].op = EdDSAOp -> "edsign"
                  [] OTHER -> "digest"]
    /\ UNCHANGED << claims, call, headerJSON, hash, digest, sig, ix, enc, ret,
                    lo, hi, raw >>

\* digest.Write(token).
DigestWrite(p) ==
    /\ pc[p] = "digest"
    /\ digest' = [digest EXCEPT ![p] = DigestInput(buf[p], tlen[p])]
    /\ pc' = [pc EXCEPT ![p] = IF call[p].op = RSAOp THEN "rsasign" ELSE "dot"]
    /\ UNCHANGED << claims, call, headerJSON, hash, buf, tlen, sig, ix, enc, ret,
                    base, lo, hi, allocs, acc, raw >>

\* token = append(token, '.'): in place while capacity is left, otherwise
\* into a new array of twice the capacity.
AppendDot(p) ==
    /\ pc[p] = "dot"
    /\ IF tlen[p] < Len(buf[p])
       THEN /\ buf' = [buf EXCEPT ![p] = WriteAt(@, tlen[p], <<Dot>>)]
            /\ allocs' = allocs
       ELSE /\ buf' = [buf EXCEPT ![p] =
                          WriteAt(@ \o Zeros(Max(Len(@), 1)), tlen[p], <<Dot>>)]
            /\ allocs' = [allocs EXCEPT ![p] = @ + 1]
    /\ tlen' = [tlen EXCEPT ![p] = @ + 1]
    /\ Touch(p, tlen[p], tlen[p])
    /\ pc' = [pc EXCEPT ![p] = IF call[p].op = HMACOp THEN "sum" ELSE "ecsign"]
    /\ UNCHANGED << claims, call, headerJSON, hash, digest, sig, ix, enc, ret,
                    base, acc, raw >>

\* HMACSign: digest.Sum(token[bufOffset:bufOffset]) stages the MAC, and
\* encoding.Encode(token[len(token):cap(token)], <the MAC>) starts.
HMACStage(p) ==
    /\ pc[p] = "sum"
    /\ LET size == hash[p]
           off == bufOffset(Len(buf[p]), tlen[p], size)
           mac == HMACSum(size, call[p].secret, digest[p])
           dst == [NoEnc EXCEPT !.dst = tlen[p], !.dlen = Len(buf[p]) - tlen[p],
                                !.n = size]
       IN  IF off < 0 \/ off > Len(buf[p])
           THEN /\ Panic(p)
                /\ UNCHANGED << buf, sig, enc, raw, lo, hi, allocs >>
           ELSE /\ pc' = [pc EXCEPT ![p] = "encode"]
                /\ ret' = ret
                /\ raw' = [raw EXCEPT ![p] = mac]
                /\ IF off + size <= Len(buf[p])
                   THEN /\ buf' = [buf EXCEPT ![p] = WriteAt(@, off, mac)]
                        /\ enc' = [enc EXCEPT ![p] =
                                     [dst EXCEPT !.aliased = TRUE, !.src = off]]
                        /\ Touch(p, off, off + size - 1)
                        /\ UNCHANGED << sig, allocs >>
                   ELSE /\ sig' = [sig EXCEPT ![p] = mac]
                        /\ enc' = [enc EXCEPT ![p] = dst]
                        /\ allocs' = [allocs EXCEPT ![p] = @ + 1]
                        /\ UNCHANGED << buf, lo, hi >>
    /\ UNCHANGED << claims, call, headerJSON, hash, tlen, digest, ix, base, acc >>

\* RSASign: buf := token[len(token):], digest.Sum(buf) into the reserved
\* region, and rsa.SignPSS or rsa.SignPKCS1v15 with its error return.
RSASignStep(p) ==
    /\ pc[p] = "rsasign"
    /\ LET hashed == HashSum(hash[p], digest[p])
           pss == call[p].alg # NoAlg /\ call[p].alg[1] = "P"
       IN  /\ IF hash[p] <= Len(buf[p]) - tlen[p]
              THEN /\ buf' = [buf EXCEPT ![p] = WriteAt(@, tlen[p], hashed)]
                   /\ Touch(p, tlen[p], tlen[p] + hash[p] - 1)
                   /\ allocs' = allocs
              ELSE /\ allocs' = [allocs EXCEPT ![p] = @ + 1]
                   /\ UNCHANGED << buf, lo, hi >>
           /\ IF call[p].signOK
              THEN /\ sig' = [sig EXCEPT ![p] =
                                 RSASignature(call[p].key, pss, call[p].salt, hashed)]
                   /\ pc' = [pc EXCEPT ![p] = "delimit"]
                   /\ ret' = ret
              ELSE /\ pc' = [pc EXCEPT ![p] = "done"]
                   /\ ret' = [ret EXCEPT ![p] = Failed(SignError)]
                   /\ sig' = sig
    /\ UNCHANGED << claims, call, headerJSON, hash, tlen, digest, ix, enc, base,
                    acc, raw >>

\* EdDSASign: sig := ed25519.Sign(key, token).
EdDSASignStep(p) ==
    /\ pc[p] = "edsign"
    /\ digest' = [digest EXCEPT ![p] = DigestInput(buf[p], tlen[p])]
    /\ sig' = [sig EXCEPT ![p] =
                  Ed25519Sign(call[p].key.seed, DigestInput(buf[p], tlen[p]))]
    /\ pc' = [pc EXCEPT ![p] = "delimit"]
    /\ UNCHANGED << claims, call, headerJSON, hash, buf, tlen, ix, enc, ret, base,
                    lo, hi, allocs, acc, raw >>

\* RSASign and EdDSASign: i := len(token); token = token[:cap(token)];
\* token[i] = '.'; encoding.Encode(token[i+1:], sig) starts.
Delimit(p) ==
    /\ pc[p] = "delimit"
    /\ LET i == tlen[p]
       IN  IF i >= Len(buf[p])
           THEN /\ Panic(p)
                /\ UNCHANGED << buf, tlen, enc, raw, lo, hi >>
           ELSE /\ tlen' = [tlen EXCEPT ![p] = Len(buf[p])]
                /\ buf' = [buf EXCEPT ![p] = WriteAt(@, i, <<Dot>>)]
                /\ Touch(p, i, i)
                /\ enc' = [enc EXCEPT ![p] =
                             [NoEnc EXCEPT !.dst = i + 1, !.dlen = Len(buf[p]) - (i + 1),
                                           !.n = Len(sig[p])]]
                /\ raw' = [raw EXCEPT ![p] = sig[p]]
                /\ pc' = [pc EXCEPT ![p] = "encode"]
                /\ ret' = ret
    /\ UNCHANGED << claims, call, headerJSON, hash, digest, sig, ix, base, allocs,
                    acc >>

\* ECDSASign: r, s, err := ecdsa.Sign(rand.Reader, key, digest.Sum(nil)).
ECDSASignStep(p) ==
    /\ pc[p] = "ecsign"
    /\ IF call[p].signOK
       THEN /\ pc' = [pc EXCEPT ![p] = "packS"]
            /\ ret' = ret
       ELSE /\ pc' = [pc EXCEPT ![p] = "done"]
            /\ ret' = [ret EXCEPT ![p] = Failed(SignError)]
    /\ UNCHANGED << claims, call, headerJSON, hash, buf, tlen, digest, sig, ix,
                    enc, base, lo, hi, allocs, acc, raw >>

\* ECDSASign: sig := token[len(token):cap(token)]; i := len(sig); the loop
\* over s.Bits().
ECDSAPackS(p) ==
    /\ pc[p] = "packS"
    /\ LET sigv == Slice(buf[p], tlen[p] + 1, Len(buf[p]))
           w == PackBits(sigv, Len(sigv), Bits(call[p].s, call[p].intSize),
                         call[p].intSize)
       IN  IF ~w.ok
           THEN /\ Panic(p)
                /\ UNCHANGED << buf, ix, lo, hi >>
           ELSE /\ buf' = [buf EXCEPT ![p] = WriteAt(@, tlen[p], w.sig)]
                /\ ix' = [ix EXCEPT ![p] = w.i]
                /\ Touch(p, tlen[p] + w.i, tlen[p] + Len(sigv) - 1)
                /\ pc' = [pc EXCEPT ![p] = "packR"]
                /\ ret' = ret
    /\ UNCHANGED << claims, call, headerJSON, hash, tlen, digest, sig, enc, base,
                    allocs, acc, raw >>

\* ECDSASign: i = len(sig) - paramLen; the loop over r.Bits();
\* encoding.Encode(sig, sig[len(sig)-2*paramLen:]) starts.
ECDSAPackR(p) ==
    /\ pc[p] = "packR"
    /\ LET sigv == Slice(buf[p], tlen[p] + 1, Len(buf[p]))
           paramLen == ParamLen(call[p].bitSize)
           i0 == RStart(Len(sigv), paramLen, ix[p])
           w == PackBits(sigv, i0, Bits(call[p].r, call[p].intSize), call[p].intSize)
           src == Len(sigv) - 2 * paramLen
       IN  IF ~w.ok \/ src < 0
           THEN /\ Panic(p)
                /\ UNCHANGED << buf, ix, lo, hi, enc, raw >>
           ELSE /\ buf' = [buf EXCEPT ![p] = WriteAt(@, tlen[p], w.sig)]
                /\ ix' = [ix EXCEPT ![p] = w.i]
                /\ Touch(p, tlen[p] + w.i, tlen[p] + i0 - 1)
                /\ enc' = [enc EXCEPT ![p] =
                             [NoEnc EXCEPT !.dst = tlen[p], !.dlen = Len(sigv),
                                           !.aliased = TRUE, !.src = tlen[p] + src,
                                           !.n = 2 * paramLen]]
                /\ raw' = [raw EXCEPT ![p] = Slice(w.sig, src + 1, Len(sigv))]
                /\ pc' = [pc EXCEPT ![p] = "encode"]
                /\ ret' = ret
    /\ UNCHANGED << claims, call, headerJSON, hash, tlen, digest, sig, base,
                    allocs, acc >>

\* Byte j (from 0) of the encoder's source, as memory holds it now.
SrcByte(p, j) ==
    IF enc[p].aliased THEN buf[p][enc[p].src + j + 1] ELSE sig[p][j + 1]

\* encoding.Encode, one quantum a step: the source bytes are read, then
\* the characters are written; the partial quantum comes last.
EncodeStep(p) ==
    /\ pc[p] = "encode"
    /\ LET e == enc[p]
           full == (e.n \div 3) * 3
           remain == e.n - e.si
           out == IF e.si < full
                  THEN EncodeQuantum(SrcByte(p, e.si), SrcByte(p, e.si + 1),
                                     SrcByte(p, e.si + 2))
                  ELSE IF remain = 0 THEN <<>>
                  ELSE EncodeRemain([j \in 1..remain |-> SrcByte(p, e.si + j - 1)])
       IN  IF e.di + Len(out) > e.dlen
           THEN /\ Panic(p)
                /\ UNCHANGED << buf, enc, lo, hi >>
           ELSE /\ buf' = [buf EXCEPT ![p] = WriteAt(@, e.dst + e.di, out)]
                /\ enc' = [enc EXCEPT ![p].si = IF e.si < full THEN e.si + 3 ELSE e.n,
                                      ![p].di = e.di + Len(out)]
                /\ IF Len(out) > 0
                   THEN Touch(p, e.dst + e.di, e.dst + e.di + Len(out) - 1)
                   ELSE UNCHANGED << lo, hi >>
                /\ pc' = [pc EXCEPT ![p] = IF e.si < full THEN "encode" ELSE "return"]
                /\ ret' = ret
    /\ UNCHANGED << claims, call, headerJSON, hash, tlen, digest, sig, ix, base,
                    allocs, acc, raw >>

\* return token (FormatWithoutSign, RSASign, EdDSASign) or
\* return token[:cap(token)] (HMACSign, ECDSASign).
Return(p) ==
    /\ pc[p] = "return"
    /\ LET n == IF call[p].op \in {HMACOp, ECDSAOp} THEN Len(buf[p]) ELSE tlen[p]
       IN  ret' = [ret EXCEPT ![p] =
                      [token |-> SliceOf(Slice(buf[p], 1, n)), cap |-> Len(buf[p]),
                       err |-> NoErr]]
    /\ pc' = [pc EXCEPT ![p] = "done"]
    /\ UNCHANGED << claims, call, headerJSON, hash, buf, tlen, digest, sig, ix,
                    enc, base, lo, hi, allocs, acc, raw >>

Next ==
    \E p \in Calls :
        \/ HMACSecretCheck(p)
        \/ Sync(p)
        \/ HashLookup(p)
        \/ NewToken(p)
        \/ DigestWrite(p)
        \/ AppendDot(p)
        \/ HMACStage(p)
        \/ RSASignStep(p)
        \/ EdDSASignStep(p)
        \/ Delimit(p)
        \/ ECDSASignStep(p)
        \/ ECDSAPackS(p)
        \/ ECDSAPackR(p)
        \/ EncodeStep(p)
        \/ Return(p)

Spec == Init /\ [][Next]_vars

SpecConc == InitConc /\ [][Next]_vars

\* ------------------------------------------- reference definitions

Returned(p) == pc[p] = "done" /\ ~ret[p].token.nil
ClaimsOf(p) == claims[call[p].cl]
SigningOps == {HMACOp, RSAOp, ECDSAOp, EdDSAOp}
Thirteen ==
    {HS256, HS384, HS512, RS256, RS384, RS512, PS256, PS384, PS512,
     ES256, ES384, ES512, EdDSA}
Alphabet == {encodeURL[i] : i \in 1..64}

\* A JSON string of printable ASCII: quote and backslash escaped.
RECURSIVE JSONEscape(_)
JSONEscape(s) ==
    IF Len(s) = 0 THEN <<>>
    ELSE (IF s[1] = Quote THEN Str(<<"\\","\"">>)
          ELSE IF s[1] = Backslash THEN Str(<<"\\","\\">>)
          ELSE <<s[1]>>) \o JSONEscape(Tail(s))

\* {"alg":"<alg>"}, or {"kid":"<kid>","alg":"<alg>"} with a key id.
HeaderJSONFor(kid, alg) ==
    IF Len(kid) = 0
    THEN Str(<<"{","\"","a","l","g","\"",":","\"">>) \o Str(alg) \o Str(<<"\"","}">>)
    ELSE Str(<<"{","\"","k","i","d","\"",":","\"">>) \o JSONEscape(kid)
             \o Str(<<"\"",",","\"","a","l","g","\"",":","\"">>) \o Str(alg)
             \o Str(<<"\"","}">>)

\* The header JSON a call's token is to carry.
ExpectedHeaderJSON(p) ==
    IF ClaimsOf(p).Header.nil THEN HeaderJSONFor(ClaimsOf(p).KeyID, Alg(p))
    ELSE ClaimsOf(p).Header.bytes

\* base64url decoding, unpadded.
Val(ch) == IF ch \in Alphabet THEN (CHOOSE i \in 1..64 : encodeURL[i] = ch) - 1 ELSE 0
RECURSIVE DecodeSeq(_)
DecodeSeq(s) ==
    IF Len(s) < 2 THEN <<>>
    ELSE LET v == Val(s[1]) * 262144 + Val(s[2]) * 4096
                    + (IF Len(s) >= 3 THEN Val(s[3]) * 64 ELSE 0)
                    + (IF Len(s) >= 4 THEN Val(s[4]) ELSE 0)
         IN  IF Len(s) = 2 THEN << v \div 65536 >>
             ELSE IF Len(s) = 3 THEN << v \div 65536, (v \div 256) % 256 >>
             ELSE << v \div 65536, (v \div 256) % 256, v % 256 >>
                      \o DecodeSeq(Slice(s, 5, Len(s)))

\* encoded-header "." encoded-payload for a call.
UnsignedPrefix(p) ==
    EncodeToSeq(ExpectedHeaderJSON(p)) \o <<Dot>> \o EncodeToSeq(Marshal(ClaimsOf(p)))

\* x as an n-byte big-endian unsigned integer, zero-padded on the left.
FixedWidth(x, n) == Zeros(n - Len(x)) \o x

\* The raw signature of a call, from its inputs alone.
RefSignature(p) ==
    CASE call[p].op = HMACOp ->
            HMACSum(HashSize(call[p].alg), call[p].secret, UnsignedPrefix(p))
      [] call[p].op = RSAOp ->
            RSASignature(call[p].key, call[p].alg[1] = "P", call[p].salt,
                         HashSum(HashSize(call[p].alg), UnsignedPrefix(p)))
      [] call[p].op = ECDSAOp ->
            FixedWidth(call[p].r, ParamLen(call[p].bitSize))
                \o FixedWidth(call[p].s, ParamLen(call[p].bitSize))
      [] call[p].op = EdDSAOp -> Ed25519Sign(call[p].key.seed, UnsignedPrefix(p))

\* The token of a call, from its inputs alone.
RefToken(p) ==
    IF call[p].op = FormatOp THEN UnsignedPrefix(p)
    ELSE UnsignedPrefix(p) \o <<Dot>> \o EncodeToSeq(RefSignature(p))

\* The positions of '.' in a token, and its header segment.
Dots(t) == {i \in 1..Len(t) : t[i] = Dot}
HeaderSegment(t) ==
    IF Dots(t) = {} THEN t
    ELSE Slice(t, 1, (CHOOSE i \in Dots(t) : \A j \in Dots(t) : i <= j) - 1)

\* ---------------------------------------------------------------- claims

\* C1: a token returned by HMACSign, RSASign, ECDSASign or EdDSASign is
\* encodedHeader '.' encodedPayload '.' encodedSignature: exactly two '.',
\* at offsets len(encodedHeader) and len(encodedHeader)+1+EncodedLen(len(payload)),
\* every other byte in the base64url alphabet; FormatWithoutSign returns
\* encodedHeader '.' encodedPayload with one '.' and nothing after it.
TokenShape ==
    \A p \in Calls : Returned(p) =>
        LET t == ret[p].token.bytes
            hl == EncodedLen(Len(ExpectedHeaderJSON(p)))
            pl == EncodedLen(Len(Marshal(ClaimsOf(p))))
        IN  /\ IF call[p].op = FormatOp
               THEN Len(t) = hl + 1 + pl /\ Dots(t) = {hl + 1}
               ELSE /\ Len(t) = hl + 1 + pl + 1 + EncodedLen(RawSigLen(p))
                    /\ Dots(t) = {hl + 1, hl + 1 + pl + 1}
            /\ \A i \in (1..Len(t)) \ Dots(t) : t[i] \in Alphabet
            /\ DecodeSeq(Slice(t, 1, hl)) = ExpectedHeaderJSON(p)
            /\ DecodeSeq(Slice(t, hl + 2, hl + 1 + pl)) = Marshal(ClaimsOf(p))

TokenShapeWitness ==
    \E p \in Calls : /\ Returned(p) /\ call[p].op = ECDSAOp
                      /\ Len(ClaimsOf(p).KeyID) = 2 /\ Len(ClaimsOf(p).Issuer) = 1

\* C2: in ECDSASign the raw signature handed to the encoder is 2*paramLen
\* bytes, r then s, each a paramLen-byte big-endian integer zero-padded on
\* the left, for P-256, P-384 and P-521 and 32- and 64-bit words; the
\* returned signature segment decodes to the same bytes.
ECDSAFixedWidth ==
    \A p \in Calls : call[p].op = ECDSAOp =>
        LET n == ParamLen(call[p].bitSize)
            want == FixedWidth(call[p].r, n) \o FixedWidth(call[p].s, n)
        IN  /\ (pc[p] = "encode" /\ enc[p].si = 0) =>
                  /\ enc[p].n = 2 * n
                  /\ Slice(buf[p], Len(buf[p]) - 2 * n + 1, Len(buf[p])) = want
                  /\ [j \in 1..enc[p].n |-> SrcByte(p, j - 1)] = want
            /\ Returned(p) =>
                  LET t == ret[p].token.bytes
                  IN  DecodeSeq(Slice(t, Len(t) - EncodedLen(2 * n) + 1, Len(t))) = want

ECDSAFixedWidthWitness ==
    \E p \in Calls :
        /\ Returned(p) /\ call[p].op = ECDSAOp
        /\ call[p].bitSize = 521 /\ call[p].intSize = 64
        /\ Len(call[p].r) = 1 /\ Len(call[p].s) = 66

\* C3: HMACSign with a zero-length secret returns no token and the
\* secret-required error, whatever the alg and the claims, before any other
\* work: Raw is as it was, nothing of the claims is read, no buffer exists.
EmptySecretFirst ==
    \A p \in Calls :
        (call[p].op = HMACOp /\ Len(call[p].secret) = 0 /\ pc[p] # "start") =>
            /\ pc[p] = "done"
            /\ ret[p] = Failed(errNoSecret)
            /\ allocs[p] = 0 /\ buf[p] = <<>>
            /\ \A a \in acc : a.call # p
            /\ ClaimsOf(p).Raw = <<>>

EmptySecretFirstWitness ==
    \E p \in Calls :
        /\ pc[p] = "done" /\ call[p].op = HMACOp /\ Len(call[p].secret) = 0
        /\ call[p].alg = RS256 /\ ~ClaimsOf(p).Valid

\* C4: with a non-empty secret or a key and a successful sync, HMACSign,
\* RSASign and ECDSASign return AlgError exactly when alg is outside the
\* operation's own family set; on every error no token is returned.
AlgErrorExactly ==
    \A p \in Calls : pc[p] = "done" =>
        /\ ret[p].token.nil <=> ret[p].err # NoErr
        /\ ( /\ call[p].op \in {HMACOp, RSAOp, ECDSAOp}
             /\ ClaimsOf(p).Valid
             /\ (call[p].op = HMACOp => Len(call[p].secret) > 0) ) =>
              ( (ret[p].err = AlgError /\ ret[p].token.nil) <=>
                call[p].alg \notin
                    (CASE call[p].op = HMACOp -> {HS256, HS384, HS512}
                       [] call[p].op = RSAOp ->
                              {RS256, RS384, RS512, PS256, PS384, PS512}
                       [] call[p].op = ECDSAOp -> {ES256, ES384, ES512}) )

AlgErrorExactlyWitness ==
    \E p \in Calls :
        /\ pc[p] = "done" /\ call[p].op = HMACOp /\ call[p].alg = RS256
        /\ Len(call[p].secret) > 0 /\ ret[p] = Failed(AlgError)

\* C5: the bytes given to the hash, MAC or signature primitive are exactly
\* encodedHeader '.' encodedPayload, of the length newToken returned, which
\* is what FormatWithoutSign returns for the same claims and alg.
SignedBytesArePrefix ==
    \A p \in Calls :
        (call[p].op \in SigningOps
           /\ (Returned(p) \/ pc[p] \in {"dot", "sum", "rsasign", "ecsign", "packS",
                                         "packR", "delimit", "encode", "return"})) =>
            /\ digest[p] = UnsignedPrefix(p)
            /\ Len(digest[p]) = base[p]
            /\ LET f == newToken([KeyID |-> ClaimsOf(p).KeyID,
                                  Raw |-> Marshal(ClaimsOf(p))],
                                 Alg(p), 0, ClaimsOf(p).Header)
               IN  digest[p] = Slice(f.buf, 1, f.len)

SignedBytesArePrefixWitness ==
    \E p \in Calls :
        /\ Returned(p) /\ call[p].op = RSAOp /\ call[p].alg = PS384
        /\ Len(ClaimsOf(p).KeyID) = 1 /\ digest[p] # <<>>

\* C6: with an empty key id and no header override, for each of the
\* thirteen identifiers the fixed header, less its '.', is base64url of
\* {"alg":"<ALG>"} and the buffer newToken returns (bytes, length, capacity)
\* is the one the general path gives; with a key id the header decodes to
\* {"kid":"<kid>","alg":"<alg>"}, kid first, no whitespace.
FixedHeaderIsSlowPath ==
    \A p \in Calls :
        (pc[p] \in {"digest", "edsign", "return"} /\ enc[p] = NoEnc
           /\ headerJSON[p].nil) =>
            LET c == [KeyID |-> ClaimsOf(p).KeyID, Raw |-> ClaimsOf(p).Raw]
                slow == newTokenSlow(c, Alg(p), EncSigLen(p), NilSlice)
                hl == EncodedLen(Len(HeaderJSONFor(c.KeyID, Alg(p))))
            IN  /\ (Len(c.KeyID) = 0 /\ Alg(p) \in Thirteen) =>
                      /\ buf[p] = slow.buf /\ tlen[p] = slow.len
                      /\ Len(buf[p]) = Len(slow.buf)
                      /\ FixedHeader(Alg(p))[hl + 1] = Dot
                      /\ DecodeSeq(Slice(FixedHeader(Alg(p)), 1, hl))
                             = HeaderJSONFor(<<>>, Alg(p))
                /\ buf[p][hl + 1] = Dot
                /\ DecodeSeq(Slice(buf[p], 1, hl)) = HeaderJSONFor(c.KeyID, Alg(p))

FixedHeaderIsSlowPathWitness ==
    \E p \in Calls :
        /\ pc[p] = "digest" /\ call[p].op = ECDSAOp /\ call[p].alg = ES512
        /\ headerJSON[p].nil /\ Len(ClaimsOf(p).KeyID) = 0
        /\ Slice(buf[p], 1, 21) = FixedHeader(ES512)

\* Two accesses to one location by different calls, one of them a write.
Conflict(a, b) ==
    /\ a.call # b.call /\ a.loc = b.loc
    /\ (a.kind = "w" \/ b.kind = "w")

\* C7, as claimed: no signing call writes a location another call reads or
\* writes, also for two calls on the same Claims value.
NoSharedMutableState ==
    \A a \in acc, b \in acc : ~Conflict(a, b)

\* C7, amended: calls on different Claims values touch no common location
\* that either writes, and each returns the token its inputs alone give;
\* calls on the same Claims value both write its Raw field.
NoSharedStateAcrossClaims ==
    /\ \A a \in acc, b \in acc :
          Conflict(a, b) =>
              /\ call[a.call].cl = call[b.call].cl
              /\ a.loc = <<call[a.call].cl, "Raw">>
    /\ \A p \in Calls :
          (Returned(p) /\ \A q \in Calls \ {p} : call[q].cl # call[p].cl) =>
              ret[p].token.bytes = RefToken(p)

NoSharedStateAcrossClaimsWitness ==
    /\ call[1].cl # call[2].cl
    /\ Returned(1) /\ Returned(2)
    /\ call[1].op = ECDSAOp /\ call[2].op = HMACOp

\* C8, as claimed: every token or unsigned prefix returned by any of the
\* five operations carries in its header one of the thirteen identifiers
\* (tokens built from a header override aside).
HeaderAlgEnumerated ==
    \A p \in Calls :
        (Returned(p) /\ ClaimsOf(p).Header.nil) =>
            \E a \in Thirteen :
                DecodeSeq(HeaderSegment(ret[p].token.bytes))
                    = HeaderJSONFor(ClaimsOf(p).KeyID, a)

\* C8, amended: every token HMACSign, RSASign, ECDSASign or EdDSASign
\* returns (header override aside) carries in its header an identifier of
\* that operation's family; FormatWithoutSign checks nothing and returns an
\* unsigned prefix with whatever identifier it was given.
SignedHeaderAlgInFamily ==
    \A p \in Calls :
        (Returned(p) /\ ClaimsOf(p).Header.nil) =>
            LET fam == CASE call[p].op = HMACOp -> {HS256, HS384, HS512}
                         [] call[p].op = RSAOp ->
                                {RS256, RS384, RS512, PS256, PS384, PS512}
                         [] call[p].op = ECDSAOp -> {ES256, ES384, ES512}
                         [] call[p].op = EdDSAOp -> {EdDSA}
                         [] call[p].op = FormatOp -> {call[p].alg}
            IN  \E a \in fam :
                    DecodeSeq(HeaderSegment(ret[p].token.bytes))
                        = HeaderJSONFor(ClaimsOf(p).KeyID, a)

SignedHeaderAlgInFamilyWitness ==
    /\ \E p \in Calls : /\ Returned(p) /\ call[p].op = RSAOp /\ call[p].alg = RS256
                         /\ ClaimsOf(p).Header.nil /\ Len(ClaimsOf(p).KeyID) = 2

\* C9: while HMACSign and ECDSASign encode in place, the raw bytes are the
\* last n of the EncodedLen(n)-byte destination and no raw byte not yet read
\* has been overwritten; the signature segment is the encoding of the raw
\* bytes as staged.
InPlaceEncodeSafe ==
    \A p \in Calls : call[p].op \in {HMACOp, ECDSAOp} =>
        /\ pc[p] = "encode" =>
              /\ enc[p].aliased
              /\ enc[p].n \in {32, 48, 64, 96, 132}
              /\ enc[p].dlen = EncodedLen(enc[p].n)
              /\ enc[p].src = enc[p].dst + enc[p].dlen - enc[p].n
              /\ \A j \in enc[p].si..(enc[p].n - 1) : SrcByte(p, j) = raw[p][j + 1]
        /\ Returned(p) =>
              LET t == ret[p].token.bytes
              IN  Slice(t, Len(t) - EncodedLen(Len(raw[p])) + 1, Len(t))
                      = EncodeToSeq(raw[p])

InPlaceEncodeSafeWitness ==
    \E p \in Calls :
        /\ pc[p] = "encode" /\ call[p].op = HMACOp /\ hash[p] = 64
        /\ enc[p].aliased /\ enc[p].si < enc[p].n
        /\ enc[p].dst + enc[p].di > enc[p].src

\* C10: newToken allocates the buffer once, with length
\* L = len(encodedHeader)+1+EncodedLen(len(payload)) and capacity L+1+encSigLen;
\* every later write is at an offset in [L, L+1+encSigLen), the unsigned
\* prefix stays as written, nothing is reallocated, no index leaves the
\* buffer, and a signed token is returned with len == cap == L+1+encSigLen.
WritesStayInBuffer ==
    \A p \in Calls :
        /\ pc[p] # "panic"
        /\ allocs[p] <= 1
        /\ allocs[p] = 1 =>
              /\ base[p] = EncodedLen(Len(ExpectedHeaderJSON(p))) + 1
                              + EncodedLen(Len(Marshal(ClaimsOf(p))))
              /\ Len(buf[p]) = base[p] + 1 + EncSigLen(p)
              /\ Slice(buf[p], 1, base[p]) = UnsignedPrefix(p)
              /\ hi[p] >= 0 => (lo[p] >= base[p] /\ hi[p] < base[p] + 1 + EncSigLen(p))
              /\ (Returned(p) /\ call[p].op # FormatOp) =>
                    /\ Len(ret[p].token.bytes) = base[p] + 1 + EncSigLen(p)
                    /\ ret[p].cap = Len(ret[p].token.bytes)
                    /\ lo[p] = base[p] /\ hi[p] = ret[p].cap - 1

WritesStayInBufferWitness ==
    \E p \in Calls :
        /\ Returned(p) /\ call[p].op = ECDSAOp
        /\ call[p].bitSize = 521 /\ call[p].intSize = 64
        /\ Len(call[p].r) = 66 /\ Len(call[p].s) = 66
====
